---- MODULE Spec2Model ----
(***************************************************************************)
(* A model of the video player component MyComponent                       *)
(* (testcomponent/frontend/src/MyComponent.tsx): its props, its React      *)
(* state, its refs, the memoized time-update handler, the <video> and      *)
(* <canvas> elements it drives and the values it reports to the host.      *)
(*                                                                         *)
(* Times are counted in ticks of 1/TimeDen second and frame rates are      *)
(* whole numbers, so every product time * fps of the model is a dyadic     *)
(* rational that a JavaScript double holds exactly.                        *)
(***************************************************************************)
EXTENDS Integers, Sequences, FiniteSets

\* ---------------------------------------------------------------- bounds

\* Ticks per second: a time of t ticks is t / TimeDen seconds.
TimeDen == 2

\* The largest playback time and media duration, in ticks.
MaxTime == 2

\* The largest seek directive the host supplies, in ticks.
MaxSeek == 1

\* The largest frame rate the host supplies.
MaxFps == 2

\* The largest native width and height of the video, in pixels.
MaxDim == 1

\* The largest totalFrames the density aggregation is applied to.
MaxTotalFrames == 405

\* ---------------------------------------------------- JavaScript numbers

\* A JavaScript value of the kind the component's numbers take: a finite
\* number, NaN, Infinity or undefined.
Num(n) == [t |-> "num", v |-> n]

NaN == [t |-> "nan", v |-> 0]

Infinity == [t |-> "inf", v |-> 0]

Undefined == [t |-> "undef", v |-> 0]

IsNum(x) == x.t = "num"

\* JavaScript truthiness of a number-or-undefined: `if (x)`, `!x`.
Truthy(x) == (IsNum(x) /\ x.v # 0) \/ x.t = "inf"

Min(a, b) == IF a <= b THEN a ELSE b

Max(a, b) == IF a >= b THEN a ELSE b

\* Math.floor(time * fps), for a time in ticks (a finite number, Infinity or
\* NaN) and the fps prop (a finite number or undefined).
FloorTimesFps_Ceil(time, f) ==
    IF ~IsNum(f) \/ time.t = "nan" THEN NaN
    ELSE IF time.t = "inf" THEN (IF f.v = 0 THEN NaN ELSE Infinity)
    ELSE Num((time.v * f.v + TimeDen - 1) \div TimeDen)

\* Math.floor(time) * fps: the duration cut to whole seconds first.
FloorTimesFps_WholeSeconds(time, f) ==
    IF ~IsNum(f) \/ time.t = "nan" THEN NaN
    ELSE IF time.t = "inf" THEN (IF f.v = 0 THEN NaN ELSE Infinity)
    ELSE Num((time.v \div TimeDen) * f.v)

FloorTimesFps(time, f) ==
    IF ~IsNum(f) \/ time.t = "nan" THEN NaN
    ELSE IF time.t = "inf" THEN (IF f.v = 0 THEN NaN ELSE Infinity)
    ELSE Num((time.v * f.v) \div TimeDen)

\* ------------------------------------------------------------- FrameMap

\* A detection: a label, a box in normalized coordinates and a confidence,
\* the last two in percent.
Det(label, x, y, width, height, confidence) ==
    [label |-> label, x |-> x, y |-> y, width |-> width, height |-> height,
     confidence |-> confidence]

\* The keys of the detections object are strings: a frame index is stored
\* under its decimal digits.
RECURSIVE ToKey(_)
ToKey(n) == IF n < 10 THEN <<n>> ELSE Append(ToKey(n \div 10), n % 10)

\* parseInt of a key of decimal digits.
RECURSIVE parseInt(_)
parseInt(key) ==
    IF Len(key) = 1 THEN key[1]
    ELSE 10 * parseInt(SubSeq(key, 1, Len(key) - 1)) + key[Len(key)]

\* The FrameMap that stores list[n] under frame index n, for n in frames.
FrameMapOf(frames, list) ==
    [key \in {ToKey(n) : n \in frames} |-> list[parseInt(key)]]

\* detections[frame] || []: the list stored under a frame index, a NaN frame
\* index reads the key "NaN", which no FrameMap holds.
DetectionsAt(dets, frame) ==
    IF IsNum(frame) /\ frame.v >= 0 /\ ToKey(frame.v) \in DOMAIN dets
    THEN dets[ToKey(frame.v)]
    ELSE <<>>

\* -------------------------------------------------- getDetectionDensity

\* The number of bars the bucket size aims at.
TargetBuckets == 200

RECURSIVE SumOver(_, _)
SumOver(S, f) ==
    IF S = {} THEN 0
    ELSE LET k == CHOOSE k \in S : TRUE
         IN f[k] + SumOver(S \ {k}, f)

\* Math.max(...seq): the largest element alone.
MaxOf_Unfloored(seq, least) ==
    LET values == {seq[i] : i \in 1..Len(seq)}
    IN CHOOSE m \in values : \A x \in values : x <= m

\* Math.max(...seq, least).
MaxOf(seq, least) ==
    LET values == {seq[i] : i \in 1..Len(seq)} \cup {least}
    IN CHOOSE m \in values : \A x \in values : x <= m

\* A bucket size that aims at twice as many bars.
bucketSizeOf_DoubleTarget(n) == Max(1, n \div (2 * TargetBuckets))

bucketSizeOf(n) == Max(1, n \div TargetBuckets)

\* Math.floor in the place of Math.ceil.
numBucketsOf_Floor(n) == n \div bucketSizeOf(n)

numBucketsOf(n) == (n + bucketSizeOf(n) - 1) \div bucketSizeOf(n)

bucketIndexOf(key, bucketSize) == parseInt(key) \div bucketSize

\* The last frame of the bucket's nominal range, not cut at the last frame.
endFrameOf_Unclamped(i, bucketSize, n) == i * bucketSize - 1

\* The last frame of bucket i (counted from 1) of a video of n frames.
endFrameOf(i, bucketSize, n) == Min(i * bucketSize - 1, n - 1)

\* density[i] after the forEach over Object.entries(detections): bucket i of
\* the array counts the entries whose bucketIndex is i and passes the guard.
densityOf(dets, bucketSize, numBuckets) ==
    LET bucketIndex == [key \in DOMAIN dets |-> bucketIndexOf(key, bucketSize)]
        counted == {key \in DOMAIN dets : bucketIndex[key] < numBuckets}
    IN [i \in 1..numBuckets |->
           SumOver({key \in counted : bucketIndex[key] = i - 1},
                   [key \in DOMAIN dets |-> Len(dets[key])])]

\* new Array(numBuckets) throws a RangeError when totalFrames is NaN or
\* Infinity: bucketSize and numBuckets are then NaN.
getDetectionDensityThrows(tf) == ~IsNum(tf)

\* The buckets getDetectionDensity returns, first bucket at index 1. The
\* quotient normalized = d / maxDensity is kept as the pair of its terms.
getDetectionDensity(dets, tf) ==
    IF ~IsNum(tf) \/ tf.v = 0 THEN <<>>
    ELSE LET bucketSize == bucketSizeOf(tf.v)
             numBuckets == numBucketsOf(tf.v)
             density == densityOf(dets, bucketSize, numBuckets)
             maxDensity == MaxOf(density, 1)
         IN [i \in 1..numBuckets |->
                [normalized |-> <<density[i], maxDensity>>,
                 count |-> density[i],
                 startFrame |-> (i - 1) * bucketSize,
                 endFrame |-> endFrameOf(i, bucketSize, tf.v),
                 bucketSize |-> bucketSize]]

\* -------------------------------------------------- getClassDistribution

\* "toString", "constructor", "valueOf", "hasOwnProperty".
KeyToString == <<116, 111, 83, 116, 114, 105, 110, 103>>

KeyConstructor == <<99, 111, 110, 115, 116, 114, 117, 99, 116, 111, 114>>

KeyValueOf == <<118, 97, 108, 117, 101, 79, 102>>

KeyHasOwnProperty == <<104, 97, 115, 79, 119, 110, 80, 114, 111, 112, 101, 114, 116, 121>>

\* Names that the object literal {} inherits from Object.prototype: reading
\* one of them from `distribution` before it was written finds a function.
ObjectPrototypeKeys == {KeyToString, KeyConstructor, KeyValueOf, KeyHasOwnProperty}

\* A function value and a string value.
Fn == [t |-> "fn", v |-> 0]

Str == [t |-> "str", v |-> 0]

\* distribution[label]: the own property, else the inherited one, else
\* undefined. The object is kept as its own entries <<label, value>> in the
\* order of their creation, the order of Object.entries for keys that are
\* not integers.
readProperty(distribution, label) ==
    IF \E i \in DOMAIN distribution : distribution[i][1] = label
    THEN distribution[CHOOSE i \in DOMAIN distribution : distribution[i][1] = label][2]
    ELSE IF label \in ObjectPrototypeKeys THEN Fn
    ELSE Undefined

\* (x || 0) + 1: one more than a count, 1 for undefined, and the string
\* concatenation with "1" for a function or a string.
orZeroPlusOne(x) ==
    IF IsNum(x) THEN Num(x.v + 1)
    ELSE IF x = Undefined THEN Num(1)
    ELSE Str

\* distribution[label] = value.
writeProperty(distribution, label, value) ==
    IF \E i \in DOMAIN distribution : distribution[i][1] = label
    THEN [i \in DOMAIN distribution |->
             IF distribution[i][1] = label THEN <<label, value>> ELSE distribution[i]]
    ELSE Append(distribution, <<label, value>>)

\* distribution after the forEach over the frame's detections, from index i.
RECURSIVE countLabels(_, _, _)
countLabels(list, i, distribution) ==
    IF i > Len(list) THEN distribution
    ELSE countLabels(list, i + 1,
                     writeProperty(distribution, list[i].label,
                                   orZeroPlusOne(readProperty(distribution, list[i].label))))

\* The comparator (a, b) => b[1] - a[1]: a difference that is NaN, one of
\* the two not being a number, counts as 0.
compare(a, b) == IF IsNum(a[2]) /\ IsNum(b[2]) THEN b[2].v - a[2].v ELSE 0

\* Whether the comparator orders the entries consistently: it does not when
\* an entry that compares equal to all stands between two that differ.
consistentlyCompared(entries) ==
    \/ \A i \in DOMAIN entries : IsNum(entries[i][2])
    \/ \A i, j \in DOMAIN entries : compare(entries[i], entries[j]) = 0

\* Array.prototype.sort with a consistent comparator: a stable sort.
RECURSIVE sortStable(_)
sortStable(entries) ==
    IF Len(entries) <= 1 THEN entries
    ELSE LET rest == sortStable(SubSeq(entries, 1, Len(entries) - 1))
             last == entries[Len(entries)]
             k == Cardinality({i \in DOMAIN rest : compare(rest[i], last) <= 0})
         IN SubSeq(rest, 1, k) \o <<last>> \o SubSeq(rest, k + 1, Len(rest))

\* The orders a sort may leave the entries in when the comparator is not
\* consistent: the language leaves the order to the implementation.
Permutations(entries) ==
    LET n == Len(entries)
    IN {[i \in 1..n |-> entries[p[i]]] :
           p \in {q \in [1..n -> 1..n] : \A i, j \in 1..n : q[i] = q[j] => i = j}}

\* The results getClassDistribution can return for the frame on display.
getClassDistribution(dets, frame) ==
    LET entries == countLabels(DetectionsAt(dets, frame), 1, <<>>)
    IN IF consistentlyCompared(entries) THEN {sortStable(entries)}
       ELSE Permutations(entries)

\* ------------------------------------------------------------ the state

VARIABLES
    seek_to,          \* prop: undefined or a time in ticks
    detections,       \* prop: the FrameMap
    fps,              \* prop: undefined or a frame rate
    currentTime,      \* useState: ticks
    duration,         \* useState: the media duration in ticks, or Infinity
    currentFrame,     \* useState: a frame index or NaN
    totalFrames,      \* useState: a frame count, NaN or Infinity
    videoRef,         \* whether videoRef.current is the <video> element
    canvasRef,        \* whether canvasRef.current is the <canvas> element
    memoFps,          \* the fps the memoized handleTimeUpdate closed over
    videoLoaded,      \* the <video> has its metadata
    videoTime,        \* video.currentTime, in ticks
    videoDuration,    \* video.duration: ticks, Infinity, or NaN before load
    videoWidth,       \* video.videoWidth
    videoHeight,      \* video.videoHeight
    canvasWidth,      \* canvas.width
    canvasHeight,     \* canvas.height
    drawn,            \* what is drawn on the canvas
    detectionDensity, \* the last render's getDetectionDensity()
    classDistribution, \* the last render's getClassDistribution()
    crashed,          \* a render threw: React has unmounted the component
    hostState,        \* the host's state store: the last value set per key
    emitted,          \* the setStateValue calls of the last event, in order
    lastEvent,        \* the event processed last
    lastClick         \* the bucket the last event, a timeline click, was given

vars ==
    <<seek_to, detections, fps, currentTime, duration, currentFrame,
      totalFrames, videoRef, canvasRef, memoFps, videoLoaded, videoTime,
      videoDuration, videoWidth, videoHeight, canvasWidth, canvasHeight,
      drawn, detectionDensity, classDistribution, crashed, hostState, emitted,
      lastEvent, lastClick>>

propVars == <<seek_to, detections, fps>>

stateVars == <<currentTime, duration, currentFrame, totalFrames>>

videoVars == <<videoLoaded, videoTime, videoDuration, videoWidth, videoHeight>>

canvasVars == <<canvasWidth, canvasHeight, drawn>>

\* ----------------------------------------------------- getColorForLabel

\* The hash is a JavaScript number, a whole number that may lie outside 32
\* bits: it is kept as <<hi, lo>>, standing for hi * 65536 + lo with lo in
\* 0..65535, so that no step leaves the integers at hand.
ToInt32(hash) == <<((hash[1] + 32768) % 65536) - 32768, hash[2]>>

\* hash << 5: the operand is taken to 32 bits, shifted, and the result is a
\* signed 32-bit integer.
ShiftLeft5(hash) ==
    LET x == ToInt32(hash)
        low == x[2] * 32
    IN ToInt32(<<x[1] * 32 + low \div 65536, low % 65536>>)

\* a - b, an ordinary subtraction of numbers.
Minus(a, b) ==
    IF a[2] >= b[2] THEN <<a[1] - b[1], a[2] - b[2]>>
    ELSE <<a[1] - b[1] - 1, a[2] - b[2] + 65536>>

\* code + a for a character code, an ordinary addition of numbers.
Plus(code, a) == <<a[1] + (a[2] + code) \div 65536, (a[2] + code) % 65536>>

Abs(n) == IF n < 0 THEN 0 - n ELSE n

\* hash % 360: the remainder has the sign of the hash.
Remainder360(hash) ==
    IF hash[1] >= 0 THEN (hash[1] * 16 + hash[2]) % 360
    ELSE LET pos == Minus(<<0, 0>>, hash)
         IN 0 - ((pos[1] * 16 + pos[2]) % 360)

\* The hash after the loop over the label's character codes, from index i
\* on: hash = label.charCodeAt(i) + ((hash << 5) - hash). Only the shift is
\* taken in 32 bits; the subtraction and the addition are not.
RECURSIVE hashFrom(_, _, _)
hashFrom(label, i, hash) ==
    IF i > Len(label) THEN hash
    ELSE hashFrom(label, i + 1, Plus(label[i], Minus(ShiftLeft5(hash), hash)))

\* A color that starts the hash from the frame on display.
getColorForLabel_FromCurrentFrame(label) ==
    [hue |-> Abs(Remainder360(hashFrom(label, 1, <<0, currentFrame.v>>))),
     saturation |-> 85, lightness |-> 55]

\* The color of a label, a sequence of character codes: hsl(hue, 85%, 55%).
getColorForLabel(label) ==
    [hue |-> Abs(Remainder360(hashFrom(label, 1, <<0, 0>>))),
     saturation |-> 85, lightness |-> 55]

\* ------------------------------------------------------- overlay drawing

\* What the overlay effect draws for one detection on a video of w x h
\* pixels: the stroked box (coordinates in hundredths of a pixel, the
\* detection's being in percent) and the label tag. The confidence, in
\* thousandths, is shown as (confidence * 100).toFixed(0).
drawDetection(det, w, h) ==
    [x |-> det.x * w, y |-> det.y * h,
     width |-> det.width * w, height |-> det.height * h,
     color |-> getColorForLabel(det.label),
     text |-> <<det.label, (det.confidence + 5) \div 10>>]

\* The overlay drawn without the test of the video's size.
drawOverlay_NoSizeCheck(dets, frame, w, h) ==
    LET frameDetections == DetectionsAt(dets, frame)
    IN [i \in 1..Len(frameDetections) |-> drawDetection(frameDetections[i], w, h)]

\* The canvas after the overlay effect's body ran: cleared, then one box per
\* detection of the frame unless the video's size is unknown.
drawOverlay(dets, frame, w, h) ==
    IF w = 0 \/ h = 0 THEN <<>>
    ELSE LET frameDetections == DetectionsAt(dets, frame)
         IN [i \in 1..Len(frameDetections) |-> drawDetection(frameDetections[i], w, h)]

\* ------------------------------------------------------------ the inputs

\* Labels are sequences of character codes: "car", "dog".
LabelCar == <<99, 97, 114>>

LabelDog == <<100, 111, 103>>

DetCar == Det(LabelCar, 10, 20, 30, 40, 875)

DetDog == Det(LabelDog, 50, 0, 25, 50, 500)

\* The frame rates the host supplies: none, zero, or a whole number.
FpsValues == {Undefined} \cup {Num(n) : n \in 0..MaxFps}

\* The seek directives the host supplies.
SeekValues == {Undefined} \cup {Num(t) : t \in 0..MaxSeek}

EmptyFrameMap == FrameMapOf({}, <<>>)

\* The FrameMaps the host supplies to the mounted component.
FrameMaps ==
    { EmptyFrameMap,
      FrameMapOf({0, 1}, [n \in {0, 1} |-> IF n = 0 THEN <<DetCar>> ELSE <<DetDog, DetCar, DetDog>>]) }

\* The durations a media resource announces with its metadata: a stream's is
\* Infinity.
DurationValues == {Infinity} \cup {Num(t) : t \in 1..MaxTime}

\* The native sizes a media resource announces: 0 x 0 when it has no video
\* track.
VideoSizes == {<<0, 0>>} \cup ((1..MaxDim) \X (1..MaxDim))

\* ------------------------------------------------- pieces of the handlers

\* The seek effect's dependency array [seek_to]: the effect runs after a
\* render whose seek_to differs from the previous render's.
seekEffectRuns_EveryRender(old, new) == TRUE

seekEffectRuns(old, new) == old # new

\* A guard that does not look at the ref: if (seek_to).
seekEffectApplies_NoRefCheck(seek, video) == Truthy(seek)

\* The seek effect's guard: if (seek_to && videoRef.current).
seekEffectApplies(seek, video) == Truthy(seek) /\ video

\* The media position after `video.currentTime = t`: a loaded media element
\* clamps the new position to its duration.
setVideoTime(t, loaded, dur) ==
    IF loaded /\ IsNum(dur) THEN Min(t, dur.v) ELSE t

\* The dependency array [currentTime, setStateValue] of the memoized
\* handleTimeUpdate: a render makes a new callback, closing over that
\* render's fps, when one of the two differs from the previous render's.
memoRefreshed(oldTime, newTime, freshSetter) == oldTime # newTime \/ freshSetter

\* An overlay effect that playback moving back does not trigger.
overlayEffectRuns_ForwardOnly(oldFrame, newFrame, freshDetections) ==
    (IsNum(oldFrame) /\ IsNum(newFrame) /\ newFrame.v > oldFrame.v) \/ freshDetections

\* The overlay effect's dependency array [currentFrame, detections].
overlayEffectRuns(oldFrame, newFrame, freshDetections) ==
    oldFrame # newFrame \/ freshDetections

\* The canvas after a render's overlay effect, which returns at once when a
\* ref is missing.
afterOverlayEffect(runs, video, canvas, dets, frame, w, h, before) ==
    IF runs /\ video /\ canvas THEN drawOverlay(dets, frame, w, h) ELSE before

NoReport == [current_timestamp |-> Undefined, current_frame |-> Undefined]

\* The last event was not a click on the timeline.
NoClick == [startFrame |-> -1, endFrame |-> -1]

\* targetTime = segmentData.startFrame / fps, in ticks, for a quotient that
\* is a whole number of ticks.
targetTimeOf(startFrame, f) == (startFrame * TimeDen) \div f.v

\* ----------------------------------------------------------------- Init

\* The component after its first render and the effects of that render: the
\* seek effect has applied an initial seek_to to the not yet loaded video, the
\* overlay effect has found the video's size unknown.
Init ==
    /\ seek_to \in SeekValues
    /\ detections \in FrameMaps
    /\ fps \in FpsValues
    /\ currentTime = 0
    /\ duration = Num(0)
    /\ currentFrame = Num(0)
    /\ totalFrames = Num(0)
    /\ videoRef = TRUE
    /\ canvasRef = TRUE
    /\ memoFps = fps
    /\ videoLoaded = FALSE
    /\ videoTime = IF seekEffectApplies(seek_to, TRUE) THEN setVideoTime(seek_to.v, FALSE, NaN) ELSE 0
    /\ videoDuration = NaN
    /\ videoWidth = 0
    /\ videoHeight = 0
    /\ canvasWidth = 0
    /\ canvasHeight = 0
    /\ drawn = drawOverlay(detections, Num(0), 0, 0)
    /\ detectionDensity = getDetectionDensity(detections, Num(0))
    /\ classDistribution \in getClassDistribution(detections, Num(0))
    /\ crashed = FALSE
    /\ hostState = NoReport
    /\ emitted = <<>>
    /\ lastEvent = "mount"
    /\ lastClick = NoClick

\* -------------------------------------------------------------- actions

\* The component takes events while its elements exist, and the one event
\* that was under way when they went away.
Live == ~crashed /\ ((videoRef /\ canvasRef) \/ lastEvent = "unmount")

\* The host delivers props and the component renders: the seek effect and
\* the overlay effect run when their dependencies changed.
HostRender(newFps, newSeek, newDets, freshSetter, freshDetections) ==
    /\ Live
    /\ newDets # detections => freshDetections
    /\ fps' = newFps
    /\ seek_to' = newSeek
    /\ detections' = newDets
    /\ memoFps' = IF memoRefreshed(currentTime, currentTime, freshSetter) THEN newFps ELSE memoFps
    /\ videoTime' =
          IF seekEffectRuns(seek_to, newSeek) /\ seekEffectApplies(newSeek, videoRef)
          THEN setVideoTime(newSeek.v, videoLoaded, videoDuration)
          ELSE videoTime
    /\ drawn' = afterOverlayEffect(overlayEffectRuns(currentFrame, currentFrame, freshDetections),
                                   videoRef, canvasRef, newDets, currentFrame,
                                   videoWidth, videoHeight, drawn)
    /\ detectionDensity' = getDetectionDensity(newDets, totalFrames)
    /\ classDistribution' \in getClassDistribution(newDets, currentFrame)
    /\ emitted' = <<>>
    /\ lastEvent' = "render"
    /\ lastClick' = NoClick
    /\ UNCHANGED <<stateVars, videoRef, canvasRef, videoLoaded, videoDuration,
                   videoWidth, videoHeight, canvasWidth, canvasHeight, crashed, hostState>>

\* The media element gets (new) metadata and fires loadedmetadata:
\* handleLoadedMetadata, then the render its state updates cause. A first
\* load keeps a position set before it, clamped; a reload starts at 0.
handleLoadedMetadata(d, w, h) ==
    /\ Live
    /\ videoLoaded' = TRUE
    /\ videoDuration' = d
    /\ videoWidth' = w
    /\ videoHeight' = h
    /\ videoTime' = IF videoLoaded THEN 0 ELSE setVideoTime(videoTime, TRUE, d)
    /\ IF videoRef /\ canvasRef
       THEN /\ totalFrames' = FloorTimesFps(d, fps)
            /\ duration' = d
            /\ canvasWidth' = w
            /\ canvasHeight' = h
            /\ drawn' = <<>>
            /\ crashed' = getDetectionDensityThrows(totalFrames')
            /\ IF crashed'
               THEN /\ videoRef' = FALSE
                    /\ canvasRef' = FALSE
                    /\ UNCHANGED <<detectionDensity, classDistribution>>
               ELSE /\ detectionDensity' = getDetectionDensity(detections, totalFrames')
                    /\ classDistribution' \in getClassDistribution(detections, currentFrame)
                    /\ UNCHANGED <<videoRef, canvasRef>>
       ELSE UNCHANGED <<totalFrames, duration, canvasVars, crashed, videoRef,
                        canvasRef, detectionDensity, classDistribution>>
    /\ emitted' = <<>>
    /\ lastEvent' = "loadedmetadata"
    /\ lastClick' = NoClick
    /\ UNCHANGED <<propVars, currentTime, currentFrame, memoFps, hostState>>

\* Playback, or the user with the player's controls, moves the position of
\* the loaded media.
VideoMoves(t) ==
    /\ ~crashed
    /\ videoRef
    /\ videoLoaded
    /\ t # videoTime
    /\ IsNum(videoDuration) => t <= videoDuration.v
    /\ videoTime' = t
    /\ emitted' = <<>>
    /\ lastEvent' = "playback"
    /\ lastClick' = NoClick
    /\ UNCHANGED <<propVars, stateVars, videoRef, canvasRef, memoFps, videoLoaded,
                   videoDuration, videoWidth, videoHeight, canvasVars,
                   detectionDensity, classDistribution, crashed, hostState>>

\* The loaded media element fires timeupdate: the memoized handleTimeUpdate,
\* then the render its state updates cause and that render's overlay effect.
handleTimeUpdate ==
    /\ Live
    /\ videoLoaded
    /\ IF videoRef
       THEN LET frame == FloorTimesFps(Num(videoTime), memoFps)
            IN /\ currentTime' = videoTime
               /\ currentFrame' = frame
               /\ hostState' = [current_timestamp |-> Num(videoTime), current_frame |-> frame]
               /\ emitted' = << [key |-> "current_timestamp", value |-> Num(videoTime)],
                                [key |-> "current_frame", value |-> frame] >>
               /\ memoFps' = IF memoRefreshed(currentTime, videoTime, FALSE) THEN fps ELSE memoFps
               /\ drawn' = afterOverlayEffect(overlayEffectRuns(currentFrame, frame, FALSE),
                                              videoRef, canvasRef, detections, frame,
                                              videoWidth, videoHeight, drawn)
               /\ classDistribution' \in getClassDistribution(detections, frame)
       ELSE /\ emitted' = <<>>
            /\ UNCHANGED <<currentTime, currentFrame, hostState, memoFps, drawn,
                           classDistribution>>
    /\ lastEvent' = "timeupdate"
    /\ lastClick' = NoClick
    /\ UNCHANGED <<propVars, duration, totalFrames, videoRef, canvasRef, videoVars,
                   canvasWidth, canvasHeight, detectionDensity, crashed>>

\* The user clicks bar i of the timeline the last render drew:
\* handleTimelineClick with that bucket. The clicks taken are those whose
\* target time is a whole number of ticks.
handleTimelineClick(i) ==
    /\ Live
    /\ i \in DOMAIN detectionDensity
    /\ LET segmentData == detectionDensity[i]
       IN /\ (IsNum(fps) /\ fps.v > 0) => (segmentData.startFrame * TimeDen) % fps.v = 0
          /\ videoTime' =
                IF videoRef /\ Truthy(fps)
                THEN setVideoTime(targetTimeOf(segmentData.startFrame, fps),
                                  videoLoaded, videoDuration)
                ELSE videoTime
          /\ lastClick' = [startFrame |-> segmentData.startFrame,
                           endFrame |-> segmentData.endFrame]
    /\ emitted' = <<>>
    /\ lastEvent' = "click"
    /\ UNCHANGED <<propVars, stateVars, videoRef, canvasRef, memoFps, videoLoaded,
                   videoDuration, videoWidth, videoHeight, canvasVars,
                   detectionDensity, classDistribution, crashed, hostState>>

\* The elements go away (unmount): React sets both refs to null. The event
\* or render that arrives next finds the refs missing.
RefsCleared ==
    /\ ~crashed
    /\ videoRef \/ canvasRef
    /\ videoRef' = FALSE
    /\ canvasRef' = FALSE
    /\ emitted' = <<>>
    /\ lastEvent' = "unmount"
    /\ lastClick' = NoClick
    /\ UNCHANGED <<propVars, stateVars, memoFps, videoVars, canvasVars,
                   detectionDensity, classDistribution, crashed, hostState>>

\* A host delivery repeats the props, or changes the frame rate, the seek
\* directive or the FrameMap.
Next ==
    \/ \E freshSetter \in BOOLEAN, freshDetections \in BOOLEAN :
          HostRender(fps, seek_to, detections, freshSetter, freshDetections)
    \/ \E newFps \in FpsValues :
          HostRender(newFps, seek_to, detections, FALSE, FALSE)
    \/ \E newSeek \in SeekValues :
          HostRender(fps, newSeek, detections, FALSE, FALSE)
    \/ \E newDets \in FrameMaps :
          HostRender(fps, seek_to, newDets, FALSE, TRUE)
    \/ \E d \in DurationValues, size \in VideoSizes :
          handleLoadedMetadata(d, size[1], size[2])
    \/ \E t \in 0..MaxTime : VideoMoves(t)
    \/ handleTimeUpdate
    \/ \E i \in DOMAIN detectionDensity : handleTimelineClick(i)
    \/ RefsCleared

Spec == Init /\ [][Next]_vars

\* ------------------------------------- the density aggregation's inputs

\* The frame indices the aggregated FrameMaps hold detections under: two
\* neighbours and one that lies, as totalFrames varies, inside the video,
\* in the last bucket's nominal range past the last frame, and beyond.
DensityFrames == {0, 1, 401}

\* The longest detection list of an aggregated FrameMap.
MaxDets == 2

DetectionLists == {[i \in 1..k |-> DetCar] : k \in 1..MaxDets}

\* One detection at frame 500, for a video of 1000 frames.
ScenarioFrameMap == FrameMapOf({500}, [n \in {500} |-> <<DetCar>>])

DensityFrameMaps ==
    UNION {[{ToKey(n) : n \in frames} -> DetectionLists] : frames \in SUBSET DensityFrames}
       \cup {ScenarioFrameMap}

\* The video lengths the aggregation is applied to.
TotalFramesValues == {Num(n) : n \in 0..MaxTotalFrames} \cup {Num(1000)}

\* The mounted component with any totalFrames, rendered before the host has
\* detections to deliver.
DensityInit ==
    /\ seek_to = Undefined
    /\ detections = EmptyFrameMap
    /\ fps = Num(1)
    /\ currentTime = 0
    /\ duration = Num(0)
    /\ currentFrame = Num(0)
    /\ totalFrames \in TotalFramesValues
    /\ videoRef = TRUE
    /\ canvasRef = TRUE
    /\ memoFps = fps
    /\ videoLoaded = FALSE
    /\ videoTime = 0
    /\ videoDuration = NaN
    /\ videoWidth = 0
    /\ videoHeight = 0
    /\ canvasWidth = 0
    /\ canvasHeight = 0
    /\ drawn = <<>>
    /\ detectionDensity = getDetectionDensity(detections, totalFrames)
    /\ classDistribution \in getClassDistribution(detections, currentFrame)
    /\ crashed = FALSE
    /\ hostState = NoReport
    /\ emitted = <<>>
    /\ lastEvent = "mount"
    /\ lastClick = NoClick

\* The host delivers the detections and the component renders.
DensityNext ==
    /\ detections = EmptyFrameMap
    /\ \E newDets \in DensityFrameMaps : HostRender(fps, seek_to, newDets, FALSE, TRUE)

DensitySpec == DensityInit /\ [][DensityNext]_vars

\* ------------------------------------- the class distribution's inputs

\* The longest detection list of a frame.
MaxListLen == 4

\* The labels of the lists: two classes and a name every object inherits.
DistributionLabels == {LabelCar, LabelDog, KeyToString}

DistributionLists ==
    UNION {[1..n -> {Det(label, 10, 20, 30, 40, 875) : label \in DistributionLabels}] :
              n \in 0..MaxListLen}

\* FrameMaps with one list, at the frame on display or at the next.
DistributionFrameMaps ==
    {FrameMapOf({n}, [k \in {n} |-> list]) : n \in {0, 1}, list \in DistributionLists}

\* The mounted component, rendered before the host has detections to
\* deliver.
DistributionInit ==
    /\ seek_to = Undefined
    /\ detections = EmptyFrameMap
    /\ fps = Num(1)
    /\ currentTime = 0
    /\ duration = Num(0)
    /\ currentFrame = Num(0)
    /\ totalFrames = Num(0)
    /\ videoRef = TRUE
    /\ canvasRef = TRUE
    /\ memoFps = fps
    /\ videoLoaded = FALSE
    /\ videoTime = 0
    /\ videoDuration = NaN
    /\ videoWidth = 0
    /\ videoHeight = 0
    /\ canvasWidth = 0
    /\ canvasHeight = 0
    /\ drawn = <<>>
    /\ detectionDensity = <<>>
    /\ classDistribution = <<>>
    /\ crashed = FALSE
    /\ hostState = NoReport
    /\ emitted = <<>>
    /\ lastEvent = "mount"
    /\ lastClick = NoClick

\* The host delivers the detections and the component renders.
DistributionNext ==
    /\ detections = EmptyFrameMap
    /\ \E newDets \in DistributionFrameMaps : HostRender(fps, seek_to, newDets, FALSE, TRUE)

DistributionSpec == DistributionInit /\ [][DistributionNext]_vars

\* ------------------------------------------------ the label colors' inputs

\* The characters the colored labels are made of: "a" and "z".
ColorChars == {97, 122}

\* The longest label made of them.
MaxLabelLen == 7

\* "airplane".
LabelAirplane == <<97, 105, 114, 112, 108, 97, 110, 101>>

\* The labels that get a color: all strings of ColorChars up to MaxLabelLen,
\* the empty one included, and a word.
ColorLabels ==
    UNION {[1..n -> ColorChars] : n \in 0..MaxLabelLen} \cup {LabelAirplane}

\* One box of the label at frame 0 and two at frame 1.
ColorFrameMapOf(label) ==
    FrameMapOf({0, 1},
               [n \in {0, 1} |->
                   IF n = 0 THEN <<Det(label, 10, 20, 30, 40, 875)>>
                   ELSE <<Det(label, 50, 0, 25, 50, 500), Det(label, 10, 20, 30, 40, 875)>>])

ColorFrameMaps == {ColorFrameMapOf(label) : label \in ColorLabels}

\* The component mounted with a FrameMap and a frame rate of 1, after the
\* metadata of a video of MaxDim x MaxDim pixels has loaded: the canvas has
\* been sized, and is blank.
ColorInit ==
    /\ seek_to = Undefined
    /\ detections \in ColorFrameMaps
    /\ fps = Num(1)
    /\ currentTime = 0
    /\ duration = Num(MaxTime)
    /\ currentFrame = Num(0)
    /\ totalFrames = FloorTimesFps(Num(MaxTime), fps)
    /\ videoRef = TRUE
    /\ canvasRef = TRUE
    /\ memoFps = fps
    /\ videoLoaded = TRUE
    /\ videoTime = 0
    /\ videoDuration = Num(MaxTime)
    /\ videoWidth = MaxDim
    /\ videoHeight = MaxDim
    /\ canvasWidth = MaxDim
    /\ canvasHeight = MaxDim
    /\ drawn = <<>>
    /\ detectionDensity = getDetectionDensity(detections, totalFrames)
    /\ classDistribution \in getClassDistribution(detections, currentFrame)
    /\ crashed = FALSE
    /\ hostState = NoReport
    /\ emitted = <<>>
    /\ lastEvent = "loadedmetadata"
    /\ lastClick = NoClick

\* The host delivers the detections anew, the playhead moves, the media
\* element reports it: each overlay effect colors the boxes of a frame.
ColorNext ==
    \/ HostRender(fps, seek_to, detections, FALSE, TRUE)
    \/ \E t \in 0..MaxTime : VideoMoves(t)
    \/ handleTimeUpdate

ColorSpec == ColorInit /\ [][ColorNext]_vars

\* ------------------------------------------------------------ the claims

\* The sum of the buckets' rawCounts: the buckets that count nothing add
\* nothing.
SumCounts(buckets) ==
    SumOver({i \in 1..Len(buckets) : buckets[i].count # 0},
            [i \in 1..Len(buckets) |-> buckets[i].count])

\* The number of detections a FrameMap stores under frame indices below n.
DetectionsBelow(dets, n) ==
    SumOver({key \in DOMAIN dets : parseInt(key) < n},
            [key \in DOMAIN dets |-> Len(dets[key])])

\* C2: for totalFrames > 0 the buckets of getDetectionDensity partition
\* [0, totalFrames): the first starts at frame 0, each has startFrame <=
\* endFrame, each next one starts right after its predecessor's endFrame and
\* the last ends at totalFrames - 1.
C2_BucketsPartitionFrames ==
    LET b == detectionDensity
        n == totalFrames.v
    IN n > 0 =>
         /\ Len(b) >= 1
         /\ b[1].startFrame = 0
         /\ \A i \in 1..Len(b) : b[i].startFrame <= b[i].endFrame
         /\ \A i \in 1..(Len(b) - 1) : b[i + 1].startFrame = b[i].endFrame + 1
         /\ b[Len(b)].endFrame = n - 1

\* C2's case: a FrameMap aggregated over a video whose last bucket is cut
\* short by the last frame.
C2_Witness ==
    /\ detections # EmptyFrameMap
    /\ \E i \in 1..Len(detectionDensity) :
          detectionDensity[i].endFrame - detectionDensity[i].startFrame + 1
             < detectionDensity[i].bucketSize

\* C3: the rawCounts of the buckets sum to the number of detections stored
\* under frame indices < totalFrames; what is stored at or beyond totalFrames
\* is counted nowhere.
C3_CountsSumToDetectionsBelowTotal ==
    SumCounts(detectionDensity) = DetectionsBelow(detections, totalFrames.v)

C5_LengthIsCeilOfFramesPerBucket ==
    LET b == detectionDensity
        n == totalFrames.v
    IN /\ n = 0 => b = <<>>
       /\ \E size \in 1..(n \div 200 + 1) :
             /\ (size = 1 /\ n < 200) \/ (200 * size <= n /\ n < 200 * (size + 1))
             /\ (Len(b) - 1) * size < n
             /\ n <= Len(b) * size
             /\ \A i \in 1..Len(b) : b[i].bucketSize = size

\* C5's case: 401 frames in buckets of two frames, the last bucket partial.
C5_Witness ==
    /\ totalFrames = Num(401)
    /\ Len(detectionDensity) = 201
    /\ detectionDensity[1].bucketSize = 2
    /\ detections # EmptyFrameMap

\* n is floor(t * f) for a time of t ticks and a frame rate f.
IsFloorOfTimeTimesFps(n, t, f) ==
    /\ n * TimeDen <= t * f
    /\ t * f < (n + 1) * TimeDen

\* C1: in every state of the running component 0 <= currentFrame <=
\* totalFrames.
C1_CurrentFrameWithinTotalFrames ==
    ~crashed =>
       /\ IsNum(currentFrame)
       /\ IsNum(totalFrames)
       /\ 0 <= currentFrame.v
       /\ currentFrame.v <= totalFrames.v

\* C6: a time-update whose handler holds a frame rate f > 0 and reads the
\* playback time t stores and reports the frame index floor(t * f), a
\* non-negative integer. (f is the fps the memoized handler closed over.)
C6_FrameIsFloorOfTimeTimesFps ==
    [][(lastEvent' = "timeupdate" /\ videoRef /\ IsNum(memoFps) /\ memoFps.v > 0) =>
          /\ IsNum(currentFrame')
          /\ currentFrame'.v >= 0
          /\ IsFloorOfTimeTimesFps(currentFrame'.v, videoTime, memoFps.v)
          /\ Len(emitted') = 2
          /\ emitted'[2] = [key |-> "current_frame", value |-> currentFrame']]_vars

\* C6's case: a time-update at half a second, handled with the frame rate 1
\* the handler still holds, has derived frame 0.
C6_Witness ==
    /\ lastEvent = "timeupdate"
    /\ videoRef
    /\ videoTime = 1
    /\ memoFps = Num(1)
    /\ fps # memoFps
    /\ emitted # <<>>
    /\ currentFrame = Num(0)
    /\ hostState.current_frame = Num(0)

\* C7: a time-update processed while fps is zero or unset leaves currentFrame
\* as it is and reports no current_frame, and no NaN or Infinity frame index
\* is stored or reported.
C7_NoFrameDerivedWithoutFps ==
    [][(lastEvent' = "timeupdate" /\ ~Truthy(fps)) =>
          /\ currentFrame' = currentFrame
          /\ \A i \in 1..Len(emitted') : emitted'[i].key # "current_frame"
          /\ IsNum(currentFrame')
          /\ hostState'.current_frame.t \in {"num", "undef"}]_vars

\* C8: a render that delivers the seek_to of the render before it does not
\* set the media position, wherever the playhead has moved since.
C8_RedeliveredSeekIsNotApplied ==
    [][(lastEvent' = "render" /\ seek_to' = seek_to) => videoTime' = videoTime]_vars

\* C8's case: after a render the playhead is away from a seek_to the media
\* could be set to, so that render delivered the seek_to once more.
C8_Witness ==
    /\ lastEvent = "render"
    /\ videoRef
    /\ Truthy(seek_to)
    /\ videoLoaded
    /\ IsNum(videoDuration)
    /\ seek_to.v <= videoDuration.v
    /\ videoTime # seek_to.v

\* C9: a render that delivers a new seek_to value v >= 0, v = 0 included,
\* while the video element is mounted sets the media position to v (a v the
\* media has: a loaded element cuts a later one to its duration).
C9_NewSeekValueIsApplied ==
    [][(/\ lastEvent' = "render"
        /\ seek_to' # seek_to
        /\ IsNum(seek_to')
        /\ videoRef
        /\ (videoLoaded /\ IsNum(videoDuration)) => seek_to'.v <= videoDuration.v)
          => videoTime' = seek_to'.v]_vars

\* C10: a time-update processed while the video element exists reports
\* current_timestamp and current_frame, the frame being floor(timestamp *
\* fps) for the fps the host supplies at that moment.
C10_ReportedFrameUsesCurrentFps ==
    (lastEvent = "timeupdate" /\ videoRef /\ IsNum(fps) /\ fps.v > 0) =>
       /\ Len(emitted) = 2
       /\ emitted[1].key = "current_timestamp"
       /\ emitted[2].key = "current_frame"
       /\ IsNum(emitted[2].value)
       /\ IsFloorOfTimeTimesFps(emitted[2].value.v, emitted[1].value.v, fps.v)

\* C11: whenever the component is at rest with its elements and the video's
\* pixel size known, the canvas shows exactly the boxes of
\* detections[currentFrame].
C11_OverlayShowsCurrentFrame ==
    (~crashed /\ videoRef /\ canvasRef /\ videoWidth > 0 /\ videoHeight > 0) =>
       drawn = drawOverlay(detections, currentFrame, videoWidth, videoHeight)

\* C12: no render raises: the component is never taken down by an error,
\* whatever duration and fps the metadata-loaded event finds.
C12_NoFatalError == ~crashed

\* C13: with the video element's ref missing a time-update changes neither
\* currentTime nor currentFrame and reports nothing, and a render's seek
\* directive moves no media position and its overlay effect draws nothing;
\* with a ref missing a metadata-loaded event leaves totalFrames and the
\* canvas size as they are; and none of them raises.
C13_MissingRefSkipsOperation ==
    [][(~videoRef \/ ~canvasRef) =>
          /\ (lastEvent' = "timeupdate" /\ ~videoRef) =>
                /\ currentTime' = currentTime
                /\ currentFrame' = currentFrame
                /\ hostState' = hostState
                /\ emitted' = <<>>
          /\ lastEvent' = "loadedmetadata" =>
                /\ totalFrames' = totalFrames
                /\ duration' = duration
                /\ canvasWidth' = canvasWidth
                /\ canvasHeight' = canvasHeight
                /\ drawn' = drawn
          /\ (lastEvent' = "render" /\ ~videoRef) =>
                /\ videoTime' = videoTime
                /\ drawn' = drawn
          /\ crashed' = crashed]_vars

\* C13's case: the elements went away with the playhead off the stored
\* time, a seek directive pending elsewhere and boxes waiting to be drawn,
\* and the time-update that followed was skipped.
C13_Witness ==
    /\ lastEvent = "timeupdate"
    /\ ~videoRef
    /\ ~canvasRef
    /\ ~crashed
    /\ videoTime # currentTime
    /\ emitted = <<>>
    /\ hostState = NoReport

\* C14: an overlay effect that runs while the video's native width or
\* height is 0 leaves the canvas cleared, with no box and no label, whatever
\* detections the current frame has.
C14_NothingDrawnWithoutVideoSize ==
    [][(/\ videoRef /\ canvasRef
        /\ videoWidth = 0 \/ videoHeight = 0
        /\ \/ lastEvent' = "timeupdate" /\ currentFrame' # currentFrame
           \/ lastEvent' = "render" /\ detections' # detections)
          => /\ drawn' = <<>>
             /\ \A size \in {<<0, 0>>, <<0, MaxDim>>, <<MaxDim, 0>>} :
                   drawOverlay(detections', currentFrame', size[1], size[2]) = <<>>]_vars

\* C14's case: a video without a video track is loaded, the host has
\* delivered detections for the current frame, and the canvas is blank.
C14_Witness ==
    /\ lastEvent = "render"
    /\ videoRef
    /\ canvasRef
    /\ videoLoaded
    /\ videoWidth = 0
    /\ DetectionsAt(detections, currentFrame) # <<>>
    /\ drawn = <<>>

\* C18: a metadata-loaded event, the first and every later one, sets
\* totalFrames to floor(duration * fps) for the duration the media announces
\* and the canvas size to the video's native size; no other event changes
\* totalFrames.
C18_TotalFramesSetOnMetadataOnly ==
    [][/\ (lastEvent' = "loadedmetadata" /\ videoRef /\ canvasRef) =>
             /\ duration' = videoDuration'
             /\ (IsNum(videoDuration') /\ IsNum(fps)) =>
                   /\ IsNum(totalFrames')
                   /\ IsFloorOfTimeTimesFps(totalFrames'.v, videoDuration'.v, fps.v)
             /\ canvasWidth' = videoWidth'
             /\ canvasHeight' = videoHeight'
       /\ lastEvent' # "loadedmetadata" => totalFrames' = totalFrames]_vars

\* C18's case: a media resource loaded after an earlier one had played (the
\* stored time is from that one), with another duration, and totalFrames is
\* that of the new duration.
C18_Witness ==
    /\ lastEvent = "loadedmetadata"
    /\ currentTime > 0
    /\ IsNum(videoDuration)
    /\ currentTime > videoDuration.v
    /\ fps = Num(MaxFps)
    /\ totalFrames = Num((videoDuration.v * MaxFps) \div TimeDen)
    /\ canvasWidth = videoWidth
    /\ canvasWidth > 0

\* C19: a time-update the handler processes, one that moves back in time
\* like any other, stores its time and its frame, leaves them as the last
\* current_timestamp and current_frame the host was sent, and when the
\* frame changed redraws the overlay for it; nothing but a time-update
\* changes the stored frame or what the host holds.
C19_LastTimeUpdateWins ==
    [][/\ (lastEvent' = "timeupdate" /\ videoRef) =>
             /\ currentTime' = videoTime
             /\ currentFrame' = FloorTimesFps(Num(videoTime), memoFps)
             /\ Len(emitted') = 2
             /\ emitted'[1] = [key |-> "current_timestamp", value |-> Num(currentTime')]
             /\ emitted'[2] = [key |-> "current_frame", value |-> currentFrame']
             /\ hostState' = [current_timestamp |-> Num(currentTime'),
                              current_frame |-> currentFrame']
             /\ (currentFrame' # currentFrame /\ canvasRef) =>
                   drawn' = drawOverlay(detections, currentFrame', videoWidth, videoHeight)
             /\ (videoTime < currentTime /\ IsNum(currentFrame) /\ IsNum(currentFrame')
                   /\ currentFrame = FloorTimesFps(Num(currentTime), memoFps)) =>
                   currentFrame'.v <= currentFrame.v
       /\ lastEvent' # "timeupdate" =>
             /\ hostState' = hostState
             /\ currentFrame' = currentFrame
             /\ currentTime' = currentTime]_vars

\* C19's case: the host holds frame 0 at time 0 from the last time-update
\* and the canvas shows frame 0's box, frame 1 having other boxes.
C19_Witness ==
    /\ lastEvent = "timeupdate"
    /\ videoRef
    /\ hostState = [current_timestamp |-> Num(0), current_frame |-> Num(0)]
    /\ currentFrame = Num(0)
    /\ memoFps = Num(MaxFps)
    /\ drawn # <<>>
    /\ drawn = drawOverlay(detections, Num(0), videoWidth, videoHeight)
    /\ drawn # drawOverlay(detections, Num(1), videoWidth, videoHeight)

\* C17: for totalFrames > 0 each bucket's normalizedActivity is its rawCount
\* over max(largest rawCount, 1), a value in [0, 1]: it is 1 for a bucket
\* holding the largest count when a detection was counted, and 0 for every
\* bucket when none was.
C17_ActivityIsCountOverLargestCount ==
    LET b == detectionDensity
        counts == {b[i].count : i \in 1..Len(b)}
    IN totalFrames.v > 0 =>
         \E m \in counts \cup {1} :
            /\ m >= 1
            /\ \A x \in counts : x <= m
            /\ \A i \in 1..Len(b) :
                  /\ b[i].normalized = <<b[i].count, m>>
                  /\ 0 <= b[i].normalized[1]
                  /\ b[i].normalized[1] <= b[i].normalized[2]
                  /\ (b[i].count = m /\ counts # {0}) =>
                        b[i].normalized[1] = b[i].normalized[2]
                  /\ counts = {0} => b[i].normalized[1] = 0

\* C17's case: 1000 frames with one detection at frame 500: buckets of 5
\* frames, bucket 100 (the 101st) counts 1 and has activity 1, the others 0.
C17_Witness ==
    /\ totalFrames = Num(1000)
    /\ detections = ScenarioFrameMap
    /\ Len(detectionDensity) = 200
    /\ detectionDensity[101].bucketSize = 5
    /\ detectionDensity[101].count = 1
    /\ detectionDensity[101].normalized = <<1, 1>>
    /\ \A i \in (1..200) \ {101} :
          /\ detectionDensity[i].count = 0
          /\ detectionDensity[i].normalized[1] = 0

Times31(H) == <<H[1] * 31 + (H[2] * 31) \div 65536, (H[2] * 31) % 65536>>

\* The classic string hash from index i on: H := charCode + 31 * H, cut to a
\* signed 32-bit integer at every step.
RECURSIVE ClassicHashFrom(_, _, _)
ClassicHashFrom(label, i, H) ==
    IF i > Len(label) THEN H
    ELSE ClassicHashFrom(label, i + 1, ToInt32(Plus(label[i], Times31(H))))

\* abs(H) mod 360 for the classic hash H of the label.
ClassicHue(label) ==
    LET H == ClassicHashFrom(label, 1, <<0, 0>>)
        pos == IF H[1] < 0 THEN Minus(<<0, 0>>, H) ELSE H
    IN (pos[1] * 16 + pos[2]) % 360

\* C20: the hue of every box drawn is abs(H) mod 360 for the classic
\* 31-multiplier hash H of its label taken with 32-bit signed wraparound, an
\* integer in 0..359, at saturation 85 and lightness 55.
C20_HueIsClassicHashMod360 ==
    \A i \in DOMAIN drawn :
       /\ drawn[i].color.hue = ClassicHue(drawn[i].text[1])
       /\ drawn[i].color.hue \in 0..359
       /\ drawn[i].color.saturation = 85
       /\ drawn[i].color.lightness = 55

\* C16: the class distribution of the frame on display has one entry per
\* distinct label of the frame's detections, each with the number of
\* detections of that label, in order of non-increasing count, the counts
\* summing to the number of detections; it is empty for a frame the FrameMap
\* does not hold.
C16_DistributionCountsLabels ==
    LET list == DetectionsAt(detections, currentFrame)
        d == classDistribution
        labels == {list[j].label : j \in DOMAIN list}
    IN /\ {d[i][1] : i \in DOMAIN d} = labels
       /\ Len(d) = Cardinality(labels)
       /\ \A i \in DOMAIN d :
             /\ IsNum(d[i][2])
             /\ d[i][2].v = Cardinality({j \in DOMAIN list : list[j].label = d[i][1]})
       /\ \A i \in 1..(Len(d) - 1) : d[i][2].v >= d[i + 1][2].v
       /\ SumOver(DOMAIN d, [i \in DOMAIN d |-> d[i][2].v]) = Len(list)
       /\ list = <<>> => d = <<>>

\* C21: a click on a bucket of the timeline, with fps > 0 and the metadata
\* loaded, sets the media position to startFrame / fps, and the time-update
\* that follows at that position stores currentFrame = startFrame, a frame of
\* the bucket; with fps zero or unset, or without the video element, the
\* click changes nothing.
C21_ClickRoundTripsToStartFrame ==
    [][/\ (lastEvent' = "click" /\ videoRef /\ videoLoaded /\ IsNum(fps) /\ fps.v > 0) =>
             videoTime' * fps.v = lastClick'.startFrame * TimeDen
       /\ (lastEvent = "click" /\ lastEvent' = "timeupdate" /\ videoRef /\ videoLoaded
              /\ IsNum(fps) /\ fps.v > 0) =>
             /\ currentFrame' = Num(lastClick.startFrame)
             /\ lastClick.startFrame <= currentFrame'.v
             /\ currentFrame'.v <= lastClick.endFrame
       /\ (lastEvent' = "click" /\ (~videoRef \/ ~IsNum(fps) \/ fps.v = 0)) =>
             UNCHANGED <<videoVars, stateVars, canvasVars, hostState>>]_vars

====
